---- MODULE Spec2Model ----
(***************************************************************************)
(* Model of src/2048.py: the Grid engine of the 2048 game (spawn,          *)
(* validity check, shift-and-merge) and the GameController dispatch.       *)
(* Indices are 0-based as in the source; grid[i][j] is row i, column j.    *)
(***************************************************************************)
EXTENDS Integers, FiniteSets, Sequences, TLC

\* ---------------------------------------------------------------- bounds
\* Largest grid size the checked constructions use (Grid(size)).
MaxSize == 3
\* Most tiles on a drawn grid of the default size.
MaxTiles == 2
\* Most calls made in a row on one grid in the games played.
MaxMoves == 4
\* Most tiles on a drawn grid whose tiles lie in two columns.
MaxPairTiles == 5

\* ------------------------------------------------------------- constants
\* Grid.__init__(self, size: int = 4): the size GameController plays on.
DefaultSize == 4

Sizes == 2..MaxSize

\* random.choice([2, 4])
SpawnValues == {2, 4}

\* ------------------------------------------------------------------ Block
\* An empty slot (Python None).
None == [value |-> 0, position |-> <<-1, -1>>]

\* Block.__init__
Block(x, y, value) == [value |-> value, position |-> <<x, y>>]

\* Variant: a merge adds 2 to the value.
update_value_incr(b) == [b EXCEPT !.value = b.value + 2]

\* Block.update_value: double the value when merged.
update_value(b) == [b EXCEPT !.value = b.value * 2]

\* BlockFactory.create_block: the blocks random.choice([2, 4]) can produce.
create_block(x, y) == {Block(x, y, v) : v \in SpawnValues}

\* ------------------------------------------------------------------- Grid
Idx(n) == 0..(n - 1)

\* [[None for _ in range(size)] for _ in range(size)]
EmptyGrid(n) == [i \in Idx(n) |-> [j \in Idx(n) |-> None]]

\* The list comprehension of spawn_new_tile.
empty_positions(g, n) == {p \in Idx(n) \X Idx(n) : g[p[1]][p[2]] = None}

\* Variant: the new tile may land on any slot, empty or not.
spawn_new_tile_anyslot(g, n) ==
    UNION {{[g EXCEPT ![p[1]][p[2]] = b] : b \in create_block(p[1], p[2])}
             : p \in Idx(n) \X Idx(n)}

\* Grid.spawn_new_tile: the grids one call can leave.
spawn_new_tile(g, n) ==
    IF empty_positions(g, n) = {}
    THEN {g}
    ELSE UNION {{[g EXCEPT ![p[1]][p[2]] = b] : b \in create_block(p[1], p[2])}
                : p \in empty_positions(g, n)}

\* Variant: the second spawn picks among the slots that were empty before the
\* first one.
NewGrid_stale(n) ==
    UNION {UNION {{[g1 EXCEPT ![p[1]][p[2]] = b] : b \in create_block(p[1], p[2])}
                   : p \in empty_positions(EmptyGrid(n), n)}
             : g1 \in spawn_new_tile(EmptyGrid(n), n)}

\* Grid.__init__: the grids a construction can leave.
NewGrid(n) == UNION {spawn_new_tile(g1, n) : g1 \in spawn_new_tile(EmptyGrid(n), n)}

\* Variant: "left" also steps one row up.
get_new_position_leftup(i, j, direction) ==
    IF direction = "up" THEN <<i - 1, j>>
    ELSE IF direction = "down" THEN <<i + 1, j>>
    ELSE IF direction = "left" THEN <<i - 1, j - 1>>
    ELSE IF direction = "right" THEN <<i, j + 1>>
    ELSE <<i, j>>

\* Grid.get_new_position
get_new_position(i, j, direction) ==
    IF direction = "up" THEN <<i - 1, j>>
    ELSE IF direction = "down" THEN <<i + 1, j>>
    ELSE IF direction = "left" THEN <<i, j - 1>>
    ELSE IF direction = "right" THEN <<i, j + 1>>
    ELSE <<i, j>>

\* 0 <= new_i < self.size and 0 <= new_j < self.size
InBounds(p, n) == 0 <= p[1] /\ p[1] < n /\ 0 <= p[2] /\ p[2] < n

\* Variant: any in-bounds neighbour counts, whatever it holds.
is_valid_move_anyneighbour(g, n, direction) ==
    \E i \in Idx(n) : \E j \in Idx(n) :
        /\ g[i][j] # None
        /\ InBounds(get_new_position(i, j, direction), n)

\* Variant: only an empty neighbour counts, not one of equal value.
is_valid_move_emptyonly(g, n, direction) ==
    \E i \in Idx(n) : \E j \in Idx(n) :
        /\ g[i][j] # None
        /\ LET np == get_new_position(i, j, direction) IN
             /\ InBounds(np, n)
             /\ g[np[1]][np[2]] = None

\* Grid.is_valid_move
is_valid_move(g, n, direction) ==
    \E i \in Idx(n) : \E j \in Idx(n) :
        /\ g[i][j] # None
        /\ LET np == get_new_position(i, j, direction) IN
             /\ InBounds(np, n)
             /\ \/ g[np[1]][np[2]] = None
                \/ g[np[1]][np[2]].value = g[i][j].value

\* range(self.size) for "down"/"right", range(self.size - 1, -1, -1) otherwise.
range_order(n, direction) ==
    IF direction \in {"down", "right"}
    THEN [k \in 1..n |-> k - 1]
    ELSE [k \in 1..n |-> n - k]

\* The state of one slide/merge pass: the grid, the merged flags, the loop
\* variables i and j, and five observations of the pass: the number of merges
\* done, per slot how many pre-move tiles the tile in it is made of, the
\* slots in which the loop body found a tile (in the order it handled them),
\* the target slots of the merges (in the order they were done), and the
\* slots whose merged flag stopped a merge that the values allowed.
PassStart(g, n) ==
    [grid   |-> g,
     merged |-> [i \in Idx(n) |-> [j \in Idx(n) |-> FALSE]],
     parts  |-> [i \in Idx(n) |-> [j \in Idx(n) |-> IF g[i][j] = None THEN 0 ELSE 1]],
     merges |-> 0,
     visits |-> <<>>,
     targets |-> <<>>,
     blocked |-> <<>>,
     i      |-> 0,
     j      |-> 0]

\* The while loop of shift_and_merge: slide one step at a time while the next
\* slot is inside the grid and empty; i and j walk with the tile.
RECURSIVE SlideLoop(_, _, _)
SlideLoop(st, n, direction) ==
    LET np == get_new_position(st.i, st.j, direction) IN
    IF InBounds(np, n) /\ st.grid[np[1]][np[2]] = None
    THEN SlideLoop([st EXCEPT
                      !.grid  = [[@ EXCEPT ![np[1]][np[2]] = st.grid[st.i][st.j]]
                                    EXCEPT ![st.i][st.j] = None],
                      !.parts = [[@ EXCEPT ![np[1]][np[2]] = st.parts[st.i][st.j]]
                                    EXCEPT ![st.i][st.j] = 0],
                      !.i = np[1],
                      !.j = np[2]], n, direction)
    ELSE st

\* Variant: the merge doubles the target and leaves the source in its slot.
MergeStep_keepsource(st, n, direction) ==
    LET np == get_new_position(st.i, st.j, direction) IN
    IF /\ InBounds(np, n)
       /\ st.grid[np[1]][np[2]] # None
       /\ st.grid[np[1]][np[2]].value = st.grid[st.i][st.j].value
    THEN IF ~st.merged[np[1]][np[2]]
         THEN [st EXCEPT
                 !.grid   = [@ EXCEPT ![np[1]][np[2]] = update_value(@)],
                 !.parts  = [@ EXCEPT ![np[1]][np[2]] = @ + st.parts[st.i][st.j]],
                 !.merged = [@ EXCEPT ![np[1]][np[2]] = TRUE],
                 !.targets = Append(@, np),
                 !.merges = @ + 1]
         ELSE [st EXCEPT !.blocked = Append(@, np)]
    ELSE st

\* Variant: the values of the two tiles are not compared.
MergeStep_anyvalue(st, n, direction) ==
    LET np == get_new_position(st.i, st.j, direction) IN
    IF /\ InBounds(np, n)
       /\ st.grid[np[1]][np[2]] # None
       /\ ~st.merged[np[1]][np[2]]
    THEN [st EXCEPT
            !.grid   = [[@ EXCEPT ![np[1]][np[2]] = update_value(@)]
                           EXCEPT ![st.i][st.j] = None],
            !.parts  = [[@ EXCEPT ![np[1]][np[2]] = @ + st.parts[st.i][st.j]]
                           EXCEPT ![st.i][st.j] = 0],
            !.merged = [@ EXCEPT ![np[1]][np[2]] = TRUE],
            !.targets = Append(@, np),
            !.merges = @ + 1]
    ELSE st

\* Variant: the merged flag is not consulted.
MergeStep_nolock(st, n, direction) ==
    LET np == get_new_position(st.i, st.j, direction) IN
    IF /\ InBounds(np, n)
       /\ st.grid[np[1]][np[2]] # None
       /\ st.grid[np[1]][np[2]].value = st.grid[st.i][st.j].value
    THEN [st EXCEPT
            !.grid   = [[@ EXCEPT ![np[1]][np[2]] = update_value(@)]
                           EXCEPT ![st.i][st.j] = None],
            !.parts  = [[@ EXCEPT ![np[1]][np[2]] = @ + st.parts[st.i][st.j]]
                           EXCEPT ![st.i][st.j] = 0],
            !.merged = [@ EXCEPT ![np[1]][np[2]] = TRUE],
            !.targets = Append(@, np),
            !.merges = @ + 1]
    ELSE st

\* The merge test and the merge that follow the while loop. The test is one
\* conjunction in the source; the merged flag, its last conjunct, is tested
\* apart here so that a merge it stops is recorded.
MergeStep(st, n, direction) ==
    LET np == get_new_position(st.i, st.j, direction) IN
    IF /\ InBounds(np, n)
       /\ st.grid[np[1]][np[2]] # None
       /\ st.grid[np[1]][np[2]].value = st.grid[st.i][st.j].value
    THEN IF ~st.merged[np[1]][np[2]]
         THEN [st EXCEPT
                 !.grid   = [[@ EXCEPT ![np[1]][np[2]] = update_value(@)]
                                EXCEPT ![st.i][st.j] = None],
                 !.parts  = [[@ EXCEPT ![np[1]][np[2]] = @ + st.parts[st.i][st.j]]
                                EXCEPT ![st.i][st.j] = 0],
                 !.merged = [@ EXCEPT ![np[1]][np[2]] = TRUE],
                 !.targets = Append(@, np),
                 !.merges = @ + 1]
         ELSE [st EXCEPT !.blocked = Append(@, np)]
    ELSE st

\* The body of the inner for loop, for the current values of i and j.
CellStep(st, n, direction) ==
    IF st.grid[st.i][st.j] = None
    THEN st
    ELSE MergeStep(SlideLoop([st EXCEPT !.visits = Append(@, <<st.i, st.j>>)],
                             n, direction), n, direction)

\* for j in range_order: the body may have reassigned i, and the next
\* iteration reads that i; j is rebound from range_order.
RECURSIVE InnerLoop(_, _, _, _)
InnerLoop(st, k, n, direction) ==
    IF k > n
    THEN st
    ELSE InnerLoop(CellStep([st EXCEPT !.j = range_order(n, direction)[k]], n, direction),
                   k + 1, n, direction)

\* for i in range_order: i is rebound from range_order.
RECURSIVE OuterLoop(_, _, _, _)
OuterLoop(st, k, n, direction) ==
    IF k > n
    THEN st
    ELSE OuterLoop(InnerLoop([st EXCEPT !.i = range_order(n, direction)[k]], 1, n, direction),
                   k + 1, n, direction)

\* The slide/merge pass of shift_and_merge (everything between the validity
\* gate and the spawn).
SlideMergePass(g, n, direction) == OuterLoop(PassStart(g, n), 1, n, direction)

\* Variant: no validity gate; the pass and the spawn always run.
shift_and_merge_nogate(g, n, direction) ==
    LET st == SlideMergePass(g, n, direction) IN
    {[ret |-> TRUE, grid |-> g2, mid |-> st.grid, passed |-> TRUE,
      parts |-> st.parts, merges |-> st.merges,
           visits |-> st.visits, targets |-> st.targets,
           blocked |-> st.blocked]
       : g2 \in spawn_new_tile(st.grid, n)}

\* Variant: an accepted move returns without the spawn.
shift_and_merge_nospawn(g, n, direction) ==
    IF ~is_valid_move(g, n, direction)
    THEN {[ret |-> FALSE, grid |-> g, mid |-> g, passed |-> FALSE,
           parts |-> PassStart(g, n).parts, merges |-> 0,
           visits |-> <<>>, targets |-> <<>>, blocked |-> <<>>]}
    ELSE LET st == SlideMergePass(g, n, direction) IN
         {[ret |-> TRUE, grid |-> st.grid, mid |-> st.grid, passed |-> TRUE,
           parts |-> st.parts, merges |-> st.merges,
           visits |-> st.visits, targets |-> st.targets,
           blocked |-> st.blocked]}

\* Grid.shift_and_merge: the outcomes one call can have.
shift_and_merge(g, n, direction) ==
    IF ~is_valid_move(g, n, direction)
    THEN {[ret |-> FALSE, grid |-> g, mid |-> g, passed |-> FALSE,
           parts |-> PassStart(g, n).parts, merges |-> 0,
           visits |-> <<>>, targets |-> <<>>, blocked |-> <<>>]}
    ELSE LET st == SlideMergePass(g, n, direction) IN
         {[ret |-> TRUE, grid |-> g2, mid |-> st.grid, passed |-> TRUE,
           parts |-> st.parts, merges |-> st.merges,
           visits |-> st.visits, targets |-> st.targets,
           blocked |-> st.blocked]
            : g2 \in spawn_new_tile(st.grid, n)}

\* --------------------------------------------------------- GameController
\* The keys of GameController.moves.
moves == {"up", "down", "left", "right"}

\* The direction strings tried: the four keys and two that are no key.
Inputs == moves \cup {"jump", "UP"}

\* Variant: no lookup in moves; the string goes straight to the grid.
play_move_nolookup(g, n, direction) ==
    {[out |-> IF r.ret THEN "print_grid" ELSE "Move not possible!",
      called |-> TRUE, ret |-> r.ret, grid |-> r.grid, mid |-> r.mid,
      passed |-> r.passed, parts |-> r.parts, merges |-> r.merges,
           visits |-> r.visits, targets |-> r.targets,
           blocked |-> r.blocked]
       : r \in shift_and_merge(g, n, direction)}

\* GameController.play_move: the outcomes one call can have.
play_move(g, n, direction) ==
    IF direction \notin moves
    THEN {[out |-> "Invalid move", called |-> FALSE, ret |-> FALSE, grid |-> g,
           mid |-> g, passed |-> FALSE, parts |-> PassStart(g, n).parts, merges |-> 0,
           visits |-> <<>>, targets |-> <<>>, blocked |-> <<>>]}
    ELSE {[out |-> IF r.ret THEN "print_grid" ELSE "Move not possible!",
           called |-> TRUE, ret |-> r.ret, grid |-> r.grid, mid |-> r.mid,
           passed |-> r.passed, parts |-> r.parts, merges |-> r.merges,
           visits |-> r.visits, targets |-> r.targets,
           blocked |-> r.blocked]
            : r \in shift_and_merge(g, n, direction)}

\* ------------------------------------------------------------------ state
VARIABLES
    size,     \* Grid.size
    grid,     \* Grid.grid
    op,       \* the last call made: "Grid", "play_move" or "spawn_new_tile"
    arg,      \* its direction argument
    out,      \* what play_move reported
    called,   \* whether play_move called shift_and_merge
    ret,      \* what shift_and_merge returned
    passed,   \* whether the slide/merge pass ran
    pre,      \* the grid before the call
    mid,      \* the grid after the slide/merge pass, before the spawn
    parts,    \* per slot after the pass: pre-move tiles combined in its tile
    merges,   \* merges done by the pass
    visits,   \* slots in which the pass found a tile, in handling order
    targets,  \* target slots of the merges of the pass, in order
    blocked,  \* slots whose merged flag stopped a merge in the pass
    last,     \* target slots of the merges of the call before
    budget    \* calls still to be made

vars == <<size, grid, op, arg, out, called, ret, passed, pre, mid, parts, merges,
          visits, targets, blocked, last, budget>>

Constructed(n, g, b) ==
    /\ size = n
    /\ grid = g
    /\ op = "Grid"
    /\ arg = "none"
    /\ out = "none"
    /\ called = FALSE
    /\ ret = FALSE
    /\ passed = FALSE
    /\ pre = EmptyGrid(n)
    /\ mid = g
    /\ parts = PassStart(g, n).parts
    /\ merges = 0
    /\ visits = <<>>
    /\ targets = <<>>
    /\ blocked = <<>>
    /\ last = <<>>
    /\ budget = b

\* The state after GameController() / Grid(size).
Init == \E n \in Sizes : \E g \in NewGrid(n) : Constructed(n, g, 1)

\* play_move(direction)
PlayMove(direction) ==
    /\ budget > 0
    /\ \E r \in play_move(grid, size, direction) :
        /\ grid' = r.grid
        /\ out' = r.out
        /\ called' = r.called
        /\ ret' = r.ret
        /\ passed' = r.passed
        /\ mid' = r.mid
        /\ parts' = r.parts
        /\ merges' = r.merges
        /\ visits' = r.visits
        /\ targets' = r.targets
        /\ blocked' = r.blocked
    /\ op' = "play_move"
    /\ arg' = direction
    /\ pre' = grid
    /\ last' = targets
    /\ budget' = budget - 1
    /\ UNCHANGED size

\* grid.spawn_new_tile() called on its own
SpawnNewTile ==
    /\ budget > 0
    /\ \E g2 \in spawn_new_tile(grid, size) : grid' = g2
    /\ op' = "spawn_new_tile"
    /\ arg' = "none"
    /\ out' = "none"
    /\ called' = FALSE
    /\ ret' = FALSE
    /\ passed' = FALSE
    /\ pre' = grid
    /\ mid' = grid
    /\ parts' = PassStart(grid, size).parts
    /\ merges' = 0
    /\ visits' = <<>>
    /\ targets' = <<>>
    /\ blocked' = <<>>
    /\ last' = targets
    /\ budget' = budget - 1
    /\ UNCHANGED size

Next ==
    \/ \E direction \in Inputs : PlayMove(direction)
    \/ SpawnNewTile

Spec == Init /\ [][Next]_vars

\* ------------------------------------------------- grids drawn as inputs
\* The grid that holds a tile of value v[p] in every slot p of S, each tile
\* as spawn_new_tile creates it (position = its slot).
GridOf(n, S, v) ==
    [i \in Idx(n) |-> [j \in Idx(n) |->
        IF <<i, j>> \in S THEN Block(i, j, v[<<i, j>>]) ELSE None]]

Slots(n) == Idx(n) \X Idx(n)

\* Sizes whose every grid of spawned tiles (two tiles or more) is drawn.
DenseSizes == {2, 3}

\* The rows and the columns of a grid, as sets of slots.
Lines(n) ==
    {{<<i, j>> : j \in Idx(n)} : i \in Idx(n)} \cup {{<<i, j>> : i \in Idx(n)} : j \in Idx(n)}

\* The sets of slots that hold the tiles of a drawn grid of size n: any two
\* slots or more on a dense size; on the default size, two to MaxTiles slots
\* anywhere, or two slots or more of one row or one column.
TileSlots(n) ==
    {S \in SUBSET Slots(n) :
        /\ Cardinality(S) >= 2
        /\ \/ n \in DenseSizes
           \/ n = DefaultSize /\ Cardinality(S) <= MaxTiles
           \/ n = DefaultSize /\ \E L \in Lines(n) : S \subseteq L}

\* Any of these grids is the state after construction and some calls of
\* spawn_new_tile; one call is then made on it.
InitAny ==
    \E n \in DenseSizes \cup {DefaultSize} :
        \E S \in TileSlots(n) :
            \E v \in [S -> SpawnValues] : Constructed(n, GridOf(n, S, v), 1)

SpecAny == InitAny /\ [][Next]_vars

\* Games: the smallest grid, fresh from construction, then up to MaxMoves
\* calls in a row.
SmallSizes == {2}

InitGame == \E n \in SmallSizes : \E g \in NewGrid(n) : Constructed(n, g, MaxMoves)

SpecGame == InitGame /\ [][Next]_vars

\* Grids of the default size whose tiles, two to MaxPairTiles of them, lie in
\* the first two columns: one call is made on each. Five tiles in two columns
\* are the fewest with which a merged flag stops a merge.
PairSlots == {p \in Slots(DefaultSize) : p[2] <= 1}

InitPair ==
    \E S \in {T \in SUBSET PairSlots : Cardinality(T) >= 2 /\ Cardinality(T) <= MaxPairTiles} :
        \E v \in [S -> SpawnValues] : Constructed(DefaultSize, GridOf(DefaultSize, S, v), 1)

\* The two-column grids and the games together.
InitMixed == InitPair \/ InitGame

SpecMixed == InitMixed /\ [][Next]_vars

\* ------------------------------------------------------------ properties
\* Two grids hold the same tile value in every slot (0 for an empty slot).
SameValues(g, h, n) ==
    \A i \in Idx(n) : \A j \in Idx(n) : g[i][j].value = h[i][j].value

\* Row i of a grid as the sequence of its tile values, left to right.
RowOf(g, n, i) == [k \in 1..n |-> g[i][k - 1].value]

OccupiedSlots(g, n) == {p \in Slots(n) : g[p[1]][p[2]].value # 0}

IsFull(g, n) == \A i \in Idx(n) : \A j \in Idx(n) : g[i][j].value # 0

NumTiles(g, n) == Cardinality(OccupiedSlots(g, n))

\* The last call was play_move and it called shift_and_merge(arg).
Moved == op = "play_move" /\ called

\* A locked direction, stated on the tile values alone: no tile has an
\* in-bounds neighbour one step along d that is empty or of equal value.
Step(d) == get_new_position(0, 0, d)

Locked(g, n, d) ==
    \A p \in OccupiedSlots(g, n) :
        LET q == <<p[1] + Step(d)[1], p[2] + Step(d)[2]>> IN
        q \in Slots(n) =>
            /\ g[q[1]][q[2]].value # 0
            /\ g[q[1]][q[2]].value # g[p[1]][p[2]].value

\* C1: a move in a direction for which is_valid_move is false returns False,
\* leaves every slot with the tile value it had, and spawns nothing.
C1_LockedMove ==
    (Moved /\ ~is_valid_move(pre, size, arg)) =>
        /\ ret = FALSE
        /\ ~passed
        /\ SameValues(grid, pre, size)
        /\ NumTiles(grid, size) = NumTiles(pre, size)

\* A locked move was tried on a grid that still had room for a spawn.
C1_Witness ==
    /\ Moved
    /\ arg \in moves
    /\ ~is_valid_move(pre, size, arg)
    /\ Locked(pre, size, arg)
    /\ NumTiles(pre, size) < size * size
    /\ ret = FALSE

\* C2: each tile merges at most once per move: after an accepted move no tile
\* is made of more than two pre-move tiles.
C2_MergeOnce ==
    (Moved /\ ret) => \A p \in Slots(size) : parts[p[1]][p[2]] <= 2

\* C3: on a 4x4 grid, "left" turns a row [V,V,V,V] into [2V,2V,0,0] before
\* the spawn, whatever the other rows hold.
C3_FourEqual ==
    (Moved /\ arg = "left" /\ size = 4) =>
        \A i \in Idx(size) : \A V \in SpawnValues :
            RowOf(pre, size, i) = <<V, V, V, V>> =>
                RowOf(mid, size, i) = <<2 * V, 2 * V, 0, 0>>

\* C4: on a 4x4 grid, "left" turns a row [V,V,V,0] into [2V,V,0,0] before
\* the spawn, whatever the other rows hold.
C4_TripleCascade ==
    (Moved /\ arg = "left" /\ size = 4) =>
        \A i \in Idx(size) : \A V \in SpawnValues :
            RowOf(pre, size, i) = <<V, V, V, 0>> =>
                RowOf(mid, size, i) = <<2 * V, V, 0, 0>>

\* Row i holds exactly two tiles, both of value V.
TwoEqual(g, n, i, V) ==
    /\ \A j \in Idx(n) : g[i][j].value \in {0, V}
    /\ Cardinality({j \in Idx(n) : g[i][j].value = V}) = 2

\* The row of length n with one tile of value v at place k and nothing else.
SingleTile(n, k, v) == [m \in 1..n |-> IF m = k THEN v ELSE 0]

\* C5: a row whose only tiles are two tiles of equal value V becomes, before
\* the spawn, a single 2V in the rightmost slot under "right" and a single 2V
\* in the leftmost slot under "left".
C5_TwoEqualMerge ==
    (Moved /\ arg \in {"left", "right"}) =>
        \A i \in Idx(size) : \A V \in SpawnValues :
            TwoEqual(pre, size, i, V) =>
                /\ passed
                /\ RowOf(mid, size, i) =
                     SingleTile(size, IF arg = "right" THEN size ELSE 1, 2 * V)

\* "right" was played on a 4x4 grid with a row [V,0,V,0] next to other tiles.
C5_Witness ==
    /\ Moved
    /\ arg = "right"
    /\ passed
    /\ size = 4
    /\ \E i \in Idx(size) :
          /\ RowOf(pre, size, i) = <<2, 0, 2, 0>>
          /\ RowOf(mid, size, i) = <<0, 0, 0, 4>>

\* C6: shift_and_merge returns True exactly when the tile values after the
\* slide/merge pass differ from those before the call.
C6_ReturnIffChanged ==
    Moved => (ret <=> ~SameValues(mid, pre, size))

\* A move on a full grid was accepted: only a merge could change the grid.
C6_Witness ==
    /\ Moved
    /\ ret
    /\ IsFull(pre, size)
    /\ ~SameValues(mid, pre, size)

\* C7: an accepted move spawns exactly one tile of value 2 or 4 in a slot that
\* the slide/merge pass left empty; the pass never leaves the grid full; the
\* tile count is the count before, minus the merges, plus one.
C7_OneSpawn ==
    (Moved /\ ret) =>
        /\ ~IsFull(mid, size)
        /\ \E i \in Idx(size) : \E j \in Idx(size) :
              /\ mid[i][j].value = 0
              /\ grid[i][j].value \in {2, 4}
              /\ SameValues([mid EXCEPT ![i][j] = grid[i][j]], grid, size)
        /\ NumTiles(mid, size) = NumTiles(pre, size) - merges
        /\ NumTiles(grid, size) = NumTiles(pre, size) - merges + 1

\* An accepted move on a full grid: the merges made the room for the spawn.
C7_Witness ==
    /\ Moved
    /\ ret
    /\ IsFull(pre, size)
    /\ merges >= 1
    /\ NumTiles(grid, size) = NumTiles(pre, size) - merges + 1

\* C8: a newly constructed Grid(N) holds exactly two tiles, each of value 2
\* or 4, and N*N - 2 empty slots.
C8_Initialization ==
    op = "Grid" =>
        /\ NumTiles(grid, size) = 2
        /\ \A p \in OccupiedSlots(grid, size) : grid[p[1]][p[2]].value \in {2, 4}
        /\ Cardinality(Slots(size) \ OccupiedSlots(grid, size)) = size * size - 2

\* A grid of size 3 fresh from construction.
C8_Witness ==
    /\ op = "Grid"
    /\ size = 3
    /\ pre = EmptyGrid(size)
    /\ NumTiles(grid, size) = 2

\* C9: spawn_new_tile on a full grid completes and leaves every slot with the
\* tile value it had.
C9_SpawnOnFull ==
    (op = "spawn_new_tile" /\ IsFull(pre, size)) => SameValues(grid, pre, size)

\* spawn_new_tile was called on a full grid and returned.
C9_Witness ==
    /\ op = "spawn_new_tile"
    /\ IsFull(pre, size)
    /\ size = 3

\* C10: play_move with a string that is no key of moves reports "Invalid
\* move" and leaves the grid as it was; a known direction on a locked grid
\* reports "Move not possible!" instead.
C10_UnknownDirection ==
    /\ (op = "play_move" /\ arg \notin {"up", "down", "left", "right"}) =>
          /\ out = "Invalid move"
          /\ ~called
          /\ ~passed
          /\ grid = pre
    /\ (op = "play_move" /\ arg \in {"up", "down", "left", "right"}
          /\ Locked(pre, size, arg)) =>
          /\ out = "Move not possible!"
          /\ out # "Invalid move"

\* An unknown direction was played on a grid fresh from construction.
C10_Witness ==
    /\ op = "play_move"
    /\ arg = "jump"
    /\ out = "Invalid move"
    /\ NumTiles(pre, size) = 2
    /\ grid = pre

\* The tile value held by the slot one step along d from slot (i, j), or -1
\* when that slot is outside the grid.
NeighbourValue(g, n, i, j, d) ==
    LET r == i + Step(d)[1]
        c == j + Step(d)[2] IN
    IF r \in Idx(n) /\ c \in Idx(n) THEN g[r][c].value ELSE -1

\* Some tile has, one step along d, a slot inside the grid that is empty.
HasEmptyNeighbour(g, n, d) ==
    \E i \in Idx(n) : \E j \in Idx(n) :
        g[i][j].value # 0 /\ NeighbourValue(g, n, i, j, d) = 0

\* Some tile has, one step along d, a slot inside the grid that holds a tile
\* of equal value.
HasEqualNeighbour(g, n, d) ==
    \E i \in Idx(n) : \E j \in Idx(n) :
        g[i][j].value # 0 /\ NeighbourValue(g, n, i, j, d) = g[i][j].value

\* C11: for each of the four directions, the validity check (whose answer
\* shift_and_merge returns) is True exactly when some occupied slot has an
\* in-bounds neighbour one step along the direction that is empty or holds an
\* equal value; a call that stops at the check leaves the grid, tiles and
\* stored positions included, as it was.
C11_ValidityCheck ==
    Moved =>
        /\ ret <=> \E i \in Idx(size) : \E j \in Idx(size) :
                      /\ pre[i][j].value # 0
                      /\ NeighbourValue(pre, size, i, j, arg) \in {0, pre[i][j].value}
        /\ ~ret => grid = pre

\* A vertical move on a full 3x3 grid was accepted on the strength of an
\* equal-valued neighbour alone.
C11_Witness ==
    /\ Moved
    /\ ret
    /\ size = 3
    /\ arg \in {"up", "down"}
    /\ ~HasEmptyNeighbour(pre, size, arg)
    /\ HasEqualNeighbour(pre, size, arg)

RECURSIVE IsPowerOfTwo(_)
IsPowerOfTwo(v) == v = 1 \/ (v > 1 /\ v % 2 = 0 /\ IsPowerOfTwo(v \div 2))

\* C12: in every state reached from Grid(N) by a sequence of calls, every
\* tile's value is a power of two that is at least 2, in the grid and in the
\* grid as the slide/merge pass left it.
C12_PowersOfTwo ==
    \A i \in Idx(size) : \A j \in Idx(size) :
        /\ grid[i][j] # None => (grid[i][j].value >= 2 /\ IsPowerOfTwo(grid[i][j].value))
        /\ mid[i][j] # None => (mid[i][j].value >= 2 /\ IsPowerOfTwo(mid[i][j].value))

\* The last call of a game merged two tiles that were themselves above the
\* spawn values.
C12_Witness ==
    /\ Moved
    /\ budget = 0
    /\ merges >= 1
    /\ \E i \in Idx(size) : \E j \in Idx(size) : mid[i][j].value >= 16

\* C13: after an accepted move, in the grid as the slide/merge pass left it,
\* no tile has an empty in-bounds slot one step along the direction: every
\* tile has slid as far toward the target edge as free slots allow.
C13_FullSlide ==
    (Moved /\ ret) => ~HasEmptyNeighbour(mid, size, arg)

\* The pass found a tile in slot p.
Handled(p) == \E k \in 1..Len(visits) : visits[k] = p

\* The place in the handling order at which the pass first found a tile in p.
FirstVisit(p) ==
    CHOOSE k \in 1..Len(visits) : visits[k] = p /\ \A m \in 1..(k - 1) : visits[m] # p

\* p and q lie in one line along d, and p is nearer to the target edge of d.
Nearer(p, q, n, d) ==
    \E k \in 1..(n - 1) : p = <<q[1] + k * Step(d)[1], q[2] + k * Step(d)[2]>>

\* C14: within one pass every slot occupied at the start of the pass is
\* handled, and of two tiles in one line along the direction the one nearer
\* to the target edge is handled before the one farther from it.
C14_ProcessingOrder ==
    (Moved /\ passed) =>
        /\ \A p \in OccupiedSlots(pre, size) : Handled(p)
        /\ \A p \in OccupiedSlots(pre, size) : \A q \in OccupiedSlots(pre, size) :
              Nearer(p, q, size, arg) => FirstVisit(p) < FirstVisit(q)

\* C15: every tile held in slot (r, c) has position = (r, c).
C15_PositionMatchesSlot ==
    \A i \in Idx(size) : \A j \in Idx(size) :
        grid[i][j] # None => grid[i][j].position = <<i, j>>

\* The slot of row i at the target edge of a horizontal direction d.
EdgeSlot(n, i, d) == <<i, IF d = "right" THEN n - 1 ELSE 0>>

\* Row i holds two tiles only, of equal value, in the edge slot of d and in
\* the slot next to it.
EdgePair(g, n, i, d) ==
    LET q == EdgeSlot(n, i, d)
        p == <<i, q[2] - Step(d)[2]>> IN
    /\ g[q[1]][q[2]].value # 0
    /\ g[p[1]][p[2]].value = g[q[1]][q[2]].value
    /\ \A j \in Idx(n) : j \notin {p[2], q[2]} => g[i][j].value = 0

InSeq(x, sq) == \E k \in 1..Len(sq) : sq[k] = x

\* C16: the merge lock is per destination slot and per pass: within one pass
\* no slot is the target of two merges; a merge that the values allow is
\* stopped only at a slot that a merge of the same pass has doubled; and a
\* merge of the call before stops nothing: an equal pair at the target edge
\* of a row merges into the edge slot whatever the call before merged.
C16_MergeLock ==
    /\ Len(targets) = merges
    /\ \A k \in 1..Len(targets) : \A m \in 1..Len(targets) :
          k # m => targets[k] # targets[m]
    /\ \A k \in 1..Len(blocked) : InSeq(blocked[k], targets)
    /\ (Moved /\ arg \in {"left", "right"}) =>
          \A i \in Idx(size) :
              EdgePair(pre, size, i, arg) => InSeq(EdgeSlot(size, i, arg), targets)

\* A pass in which the merged flag of a slot stopped a second merge into it.
C16_Witness ==
    /\ Moved
    /\ passed
    /\ size = DefaultSize
    /\ Len(blocked) >= 1
    /\ InSeq(blocked[1], targets)

\* An equal pair at the target edge merged into the edge slot, which the
\* call before had merged into as well.
C16_NextMove ==
    /\ Moved
    /\ arg \in {"left", "right"}
    /\ \E i \in Idx(size) :
          /\ EdgePair(pre, size, i, arg)
          /\ InSeq(EdgeSlot(size, i, arg), last)
          /\ InSeq(EdgeSlot(size, i, arg), targets)

\* The sum of the tile values of a grid, slot by slot in row-major order.
RECURSIVE SumFrom(_, _, _)
SumFrom(g, n, k) ==
    IF k = n * n THEN 0 ELSE g[k \div n][k % n].value + SumFrom(g, n, k + 1)

TotalValue(g, n) == SumFrom(g, n, 0)

\* C17: for every accepted move the tile values after the slide/merge pass
\* sum to what they summed to before the move, each merge takes one tile
\* away, and the sum after the move is the sum before plus the value, 2 or 4,
\* of the one spawned tile.
C17_ValueConservation ==
    (Moved /\ ret) =>
        LET before == TotalValue(pre, size)
            spawned == TotalValue(grid, size) - before IN
        /\ TotalValue(mid, size) = before
        /\ NumTiles(mid, size) = NumTiles(pre, size) - merges
        /\ spawned \in {2, 4}
        /\ \E i \in Idx(size) : \E j \in Idx(size) :
              mid[i][j].value = 0 /\ grid[i][j].value = spawned

\* A pass on a grid of the default size merged two pairs, one of 2s and one
\* of 4s, and a 4 was spawned.
C17_Witness ==
    /\ Moved
    /\ ret
    /\ size = DefaultSize
    /\ merges = 2
    /\ \E i \in Idx(size) : \E j \in Idx(size) : mid[i][j].value = 8
    /\ \E i \in Idx(size) : \E j \in Idx(size) : mid[i][j].value = 4 /\ parts[i][j] = 2
    /\ TotalValue(grid, size) = TotalValue(pre, size) + 4

\* The grid with rows and columns exchanged.
Transpose(g, n) == [i \in Idx(n) |-> [j \in Idx(n) |-> g[j][i]]]

\* The horizontal direction that corresponds to a vertical one.
Horizontal(d) == IF d = "up" THEN "left" ELSE "right"

\* C18: the slide/merge result of a vertical move on G is the transpose of
\* the slide/merge result of the corresponding horizontal move ("up" with
\* "left", "down" with "right") on the transpose of G.
C18_VerticalMirrorsHorizontal ==
    (Moved /\ passed /\ arg \in {"up", "down"}) =>
        SameValues(mid,
                   Transpose(SlideMergePass(Transpose(pre, size), size, Horizontal(arg)).grid,
                             size),
                   size)

\* The grid that holds row i of g and nothing else.
OnlyRow(g, n, i) ==
    [r \in Idx(n) |-> [c \in Idx(n) |-> IF r = i THEN g[r][c] ELSE None]]

\* Every tile of g carries the coordinates of the slot that holds it.
PositionsAreSlots(g, n) ==
    \A i \in Idx(n) : \A j \in Idx(n) : g[i][j] # None => g[i][j].position = <<i, j>>

\* The call spawned a 2 in the first slot, in row-major order, that the pass
\* left empty. Every accepted pass has this outcome among its outcomes.
FirstSpawn ==
    \A i \in Idx(size) : \A j \in Idx(size) :
        (mid[i][j].value = 0 /\ grid[i][j].value # 0) =>
            /\ grid[i][j].value = 2
            /\ \A k \in 0..(i * size + j - 1) : mid[k \div size][k % size].value # 0

\* C19: in the slide/merge pass of "left" or "right" every tile stays in the
\* row it started in, and each row ends as it would if the other rows were
\* empty; in the pass of "up" or "down" every tile stays in the column it
\* started in. Tiles are followed by the coordinates they carried before the
\* call, which the pass leaves untouched. The pass is over before the spawn,
\* so the rows are compared in one outcome per pass, the one of FirstSpawn.
C19_LinesIndependent ==
    (Moved /\ passed /\ PositionsAreSlots(pre, size)) =>
        /\ arg \in {"left", "right"} =>
              \A i \in Idx(size) : \A j \in Idx(size) :
                  mid[i][j] # None => mid[i][j].position[1] = i
        /\ arg \in {"up", "down"} =>
              \A i \in Idx(size) : \A j \in Idx(size) :
                  mid[i][j] # None => mid[i][j].position[2] = j
        /\ (arg \in {"left", "right"} /\ FirstSpawn) =>
              \A i \in Idx(size) :
                  RowOf(mid, size, i) =
                      RowOf(SlideMergePass(OnlyRow(pre, size, i), size, arg).grid, size, i)

\* "right" on a grid of the default size: one row merged its pair, another
\* row slid its two unequal tiles, and the spawn took the first free slot.
C19_Witness ==
    /\ Moved
    /\ passed
    /\ arg = "right"
    /\ size = DefaultSize
    /\ PositionsAreSlots(pre, size)
    /\ FirstSpawn
    /\ merges >= 1
    /\ \E i \in Idx(size) :
          /\ pre[i][0].value # 0
          /\ pre[i][1].value # 0
          /\ pre[i][0].value # pre[i][1].value
          /\ mid[i][size - 1].value = pre[i][1].value
          /\ mid[i][size - 1].position = <<i, 1>>

====
